---- MODULE Spec2Model ----
(***************************************************************************)
(* Model of the mengram knowledge pipeline: the vault store                *)
(* (engine/vault_manager/vault_manager.py), the extraction parser          *)
(* (engine/extractor/conversation_extractor.py), the hybrid retriever      *)
(* (engine/retrieval/hybrid_search.py) and the Memory SDK (mengram.py).    *)
(*                                                                         *)
(* A note body is a sequence of lines.  Blank lines are left out: no       *)
(* decision of the code depends on them (rstrip/strip remove them at the   *)
(* insertion points).  A text is a sequence of items, one per whitespace-  *)
(* separated word; an item that _add_wikilinks rewrote to [[Name]] has     *)
(* link = TRUE and carries the note stem it was rewritten to.              *)
(***************************************************************************)
EXTENDS Naturals, Integers, Sequences, FiniteSets, TLC

VARIABLES
    vault,        \* the tenant's vault directory: file stem -> note, or NoNote
    stats,        \* what the last process_extraction returned: created, updated
    lastDelta,    \* the ExtractionResult of the last process_extraction
    prevDelta,    \* the ExtractionResult of the call before it
    prevVault,    \* the vault as it was when the last process_extraction began
    merges,       \* number of process_extraction calls so far (also the clock)
    failed,       \* the last process_extraction raised instead of returning
    raw,          \* the LLM completion the last remember handed to _parse_response
    jsonIn,       \* the JSON object the last _parse_response decoded
    parsedOut,    \* the typed items _parse_response built from it
    parseRaised,  \* the exception the last _parse_response raised, or "none"
    startVault,   \* concurrent calls: the vault when the two calls began
    wDelta,       \* concurrent calls: the ExtractionResult of each call
    wPc,          \* concurrent calls: where each call stands
    wIdx,         \* concurrent calls: index of the entity each call is at
    wSnap,        \* concurrent calls: what each call read from its entity's file
    qGraph,       \* retrieval: the knowledge graph the retriever holds
    qMatches,     \* retrieval: entity ids of the direct matches, in score order
    qDepth,       \* retrieval: graph_depth of the last query
    qContext,     \* retrieval: entity ids of graph_context, in order
    qAssembled,   \* retrieval: the assembled_context of the last query
    disk,         \* Memory: user_id -> names of the notes in that user's directory
    prevDisk,     \* Memory: disk before the last call
    graphCache,   \* Memory: user_id -> the brain's cached graph view
    vecCache,     \* Memory: user_id -> the brain's cached vector index
    deleted,      \* Memory: user_id -> names deleted and not written since
    lastOp,       \* Memory: the last call, what it read and what it returned
    ops,          \* Memory: number of calls so far
    embedIn,      \* embed_batch: the texts of the last call and what upstream answers
    embedOut,     \* embed_batch: requests made, sleeps taken, how the call ended
    ingestIn,     \* ingest_conversation: chunks, upstream answers, state["ingested"]
    ingestOut,    \* ingest_conversation: per chunk requests and sleeps, how it ended
    history,      \* langchain: the MengramChatMessageHistory object and its last call
    lcMemory,     \* langchain: the MengramMemory object and its last call
    autoMem       \* middleware: the AutoMemory object and its last call

vaultVars == <<vault, stats, lastDelta, prevDelta, prevVault, merges, failed>>
parseVars == <<raw, jsonIn, parsedOut, parseRaised>>
concVars == <<startVault, wDelta, wPc, wIdx, wSnap>>
queryVars == <<qGraph, qMatches, qDepth, qContext, qAssembled>>
memVars == <<disk, prevDisk, graphCache, vecCache, deleted, lastOp, ops>>
clientVars == <<embedIn, embedOut, ingestIn, ingestOut>>
sessionVars == <<history, lcMemory, autoMem>>

------------------------------------------------------------------------------
(* Bounds of the model *)

MaxMerges == 2
MaxDeltaSize == 3
MaxEntities == 2
MaxFacts == 2
MaxKnowledge == 2
MaxRawLen == 4
MaxConcDeltaSize == 2
MaxMatches == 2
MaxDepth == 2
MaxOps == 4
MaxMemDeltaSize == 1
MaxBatch == 2
MaxChunks == 2
MaxAdd == 2
MaxHistoryMessages == 6
MaxSaved == 8
MaxTurns == 3

------------------------------------------------------------------------------
(* Vocabulary *)

EntityNames == {"A", "B"}
\* a relation read from a response without "from"/"to", or a knowledge entry
\* without "entity", carries the empty name (conversation_extractor.py 358-367)
EndpointNames == EntityNames \cup {""}
KnowledgeEntities == {"A", ""}
EpisodeNames == {"B"}
\* two names that differ only in a character file-name sanitization replaces
SlashNames == {"C/D", "C_D"}
AllNames == EntityNames \cup EndpointNames \cup KnowledgeEntities \cup EpisodeNames
            \cup SlashNames

F1 == <<"x", "y", "z", "w">>
F2 == <<"x", "y", "z", "v">>
F3 == <<"b", "p">>
FactPool == {F1, F2, F3}
Titles == {"t1", "t2"}
KContent == <<"c">>

\* str.lower() over the vocabulary
Lower(w) == CASE w = "A" -> "a" [] w = "B" -> "b"
             [] w = "C/D" -> "c/d" [] w = "C_D" -> "c_d" [] OTHER -> w

\* re.sub(r'[<>:"/\\|?*]', '_', entity_name) over the vocabulary: "/" in "C/D"
\* is the only replaced character a name of AllNames holds
SanitizeName(n) == IF n = "C/D" THEN "C_D" ELSE n

EntityFilePath(n) == SanitizeName(n)

\* Path.stem of the file written for a safe name: ".md" alone has no suffix
Stem(file) == IF file = "" THEN ".md" ELSE file

Files == {EntityFilePath(n) : n \in AllNames}

------------------------------------------------------------------------------
(* Notes and lines *)

NoNote == [type |-> "none", created |-> 0, updated |-> 0, body |-> <<>>]

H1Line(name) == [kind |-> "h1", a |-> name, b |-> "", items |-> <<>>]
SecLine(title) == [kind |-> "sec", a |-> title, b |-> "", items |-> <<>>]
FactLine(items) == [kind |-> "fact", a |-> "", b |-> "", items |-> items]
RelLine(dir, type, other) == [kind |-> "rel", a |-> other, b |-> dir, items |-> <<type>>]
KnowLine(ktype, title, items) == [kind |-> "know", a |-> title, b |-> ktype, items |-> items]

Plain(text) == [i \in 1..Len(text) |-> [w |-> text[i], link |-> FALSE]]

Range(s) == {s[i] : i \in 1..Len(s)}

RECURSIVE SeqOfSet(_)
SeqOfSet(S) == IF S = {} THEN <<>>
               ELSE LET x == CHOOSE y \in S : TRUE IN <<x>> \o SeqOfSet(S \ {x})

------------------------------------------------------------------------------
(* VaultManager helpers *)

ExistingNotes(v) == {Stem(f) : f \in {g \in Files : v[g] # NoNote}}

\* "[[note_name]]" in text
HasLinkTo(items, n) == \E i \in 1..Len(items) : items[i].link /\ items[i].w = n

\* the words pattern.sub can rewrite for note_name: re.IGNORECASE match of the
\* name.  No word of the vocabulary holds a note name as a proper substring, so
\* a match is a whole word that is not yet a link.
MatchesName(it, n) == ~it.link /\ Lower(it.w) = Lower(n)

FirstMatch(items, n) ==
    IF \E i \in 1..Len(items) : MatchesName(items[i], n)
    THEN CHOOSE i \in 1..Len(items) :
            /\ MatchesName(items[i], n)
            /\ \A j \in 1..(i - 1) : ~MatchesName(items[j], n)
    ELSE 0

\* _add_wikilinks: for every other existing note whose [[name]] is not yet in
\* the text, the first occurrence of the name becomes [[name]] (count=1)
AddWikilinks(items, current, v) ==
    [i \in 1..Len(items) |->
        IF \E n \in ExistingNotes(v) :
              n # current /\ ~HasLinkTo(items, n) /\ FirstMatch(items, n) = i
        THEN [w |-> CHOOSE n \in ExistingNotes(v) :
                       n # current /\ ~HasLinkTo(items, n) /\ FirstMatch(items, n) = i,
              link |-> TRUE]
        ELSE items[i]]

\* the words of a bullet once re.sub has replaced [[X]] by X, lower-cased
CleanWords(items) == {Lower(items[i].w) : i \in 1..Len(items)}

\* _extract_existing_facts: every "- " line of the body without "**" whose
\* first three characters hold no "[" (a relation bullet holds "**"; a fact
\* bullet that starts with a wikilink holds "[" at its third character)
IsReadableFact(line) ==
    /\ line.kind = "fact"
    /\ Len(line.items) > 0
    /\ ~line.items[1].link

ExtractExistingFacts(body) ==
    {CleanWords(body[i].items) : i \in {j \in 1..Len(body) : IsReadableFact(body[j])}}

\* overlap = len(new_words & existing_words) / len(new_words) > 0.7
Overlaps(newWords, existingWords) ==
    /\ newWords # {}
    /\ 10 * Cardinality(newWords \cap existingWords) > 7 * Cardinality(newWords)

FactExists(fact, existing) ==
    \E ex \in existing : Overlaps({Lower(fact[i]) : i \in 1..Len(fact)}, ex)

HasSection(body, title) == \E i \in 1..Len(body) : body[i] = SecLine(title)

\* body.find("## <title>")
FindSection(body, title) ==
    CHOOSE i \in 1..Len(body) :
        body[i] = SecLine(title) /\ \A j \in 1..(i - 1) : body[j] # SecLine(title)

\* _find_next_section(body, insert_pos + 1): the next "\n## " after the heading
\* found; 0 stands for None
FindNextSection(body, pos) ==
    IF \E i \in (pos + 1)..Len(body) : body[i].kind = "sec"
    THEN CHOOSE i \in (pos + 1)..Len(body) :
            body[i].kind = "sec" /\ \A j \in (pos + 1)..(i - 1) : body[j].kind # "sec"
    ELSE 0

\* mutant: the lines after the insertion point are not written back
InsertInSectionTruncating(body, title, newLines) ==
    LET pos == FindSection(body, title)
        nxt == FindNextSection(body, pos)
    IN  IF nxt = 0 THEN body \o newLines
        ELSE SubSeq(body, 1, nxt - 1) \o newLines

\* body[:insert_at].rstrip() + "\n" + new_lines + "\n" + body[insert_at:]
InsertInSection(body, title, newLines) ==
    LET pos == FindSection(body, title)
        nxt == FindNextSection(body, pos)
    IN  IF nxt = 0 THEN body \o newLines
        ELSE SubSeq(body, 1, nxt - 1) \o newLines \o SubSeq(body, nxt, Len(body))

\* mutant: a missing section is put at the top of the body, under the H1 line
AppendUnderAtTop(body, title, newLines) ==
    IF HasSection(body, title) THEN InsertInSection(body, title, newLines)
    ELSE <<body[1], SecLine(title)>> \o newLines \o Tail(body)

\* an existing section gets the lines at its end, a missing one is appended
\* to the end of the body
AppendUnder(body, title, newLines) ==
    IF HasSection(body, title) THEN InsertInSection(body, title, newLines)
    ELSE body \o <<SecLine(title)>> \o newLines

FactLines(facts, name, v) ==
    [i \in 1..Len(facts) |-> FactLine(AddWikilinks(Plain(facts[i]), name, v))]

RelOther(rel, name) == IF rel.from = name THEN rel.to ELSE rel.from
RelDirection(rel, name) == IF rel.from = name THEN "out" ELSE "in"

RelLines(rels, name) ==
    [i \in 1..Len(rels) |-> RelLine(RelDirection(rels[i], name), rels[i].type, RelOther(rels[i], name))]

\* _format_knowledge_entry: header line and linked content (no artifact)
FormatKnowledgeEntry(k, v) == KnowLine(k.ktype, k.title, AddWikilinks(Plain(k.content), k.entity, v))

KnowLines(know, v) == [i \in 1..Len(know) |-> FormatKnowledgeEntry(know[i], v)]

\* re.findall(r"\[\[([^\]]+)\]\]", body)
BodyLinks(body) ==
    {body[i].a : i \in {j \in 1..Len(body) : body[j].kind = "rel" /\ body[j].a # ""}}
    \cup UNION {{body[i].items[k].w : k \in {m \in 1..Len(body[i].items) : body[i].items[m].link}}
                : i \in {j \in 1..Len(body) : body[j].kind \in {"fact", "know"}}}

\* re.findall(r"\*\*\[[\w]+\]\s+(.+?)\*\*", body)
ExistingTitles(body) == {body[i].a : i \in {j \in 1..Len(body) : body[j].kind = "know"}}

WriteNote(v, file, note) == [v EXCEPT ![file] = note]

\* _create_note
CreateNote(v, file, entity, rels, know, now) ==
    LET body == <<H1Line(entity.name)>>
                \o (IF entity.facts # <<>>
                    THEN <<SecLine("Facts")>> \o FactLines(entity.facts, entity.name, v)
                    ELSE <<>>)
                \o (IF rels # <<>>
                    THEN <<SecLine("Relations")>> \o RelLines(rels, entity.name)
                    ELSE <<>>)
                \o (IF know # <<>>
                    THEN <<SecLine("Knowledge")>> \o KnowLines(know, v)
                    ELSE <<>>)
    IN  WriteNote(v, file, [type |-> entity.type, created |-> now, updated |-> now, body |-> body])

\* _write_with_knowledge: the content it writes (it always writes the file)
WithKnowledge(v, note, body, know) ==
    LET titles == ExistingTitles(body)
        newK   == SelectSeq(know, LAMBDA k : k.title \notin titles)
        out    == IF newK = <<>> THEN body
                  ELSE IF HasSection(body, "Knowledge") THEN body \o KnowLines(newK, v)
                  ELSE body \o <<SecLine("Knowledge")>> \o KnowLines(newK, v)
    IN  [note EXCEPT !.body = out]

WriteWithKnowledge(v, file, note, body, know) ==
    WriteNote(v, file, WithKnowledge(v, note, body, know))

\* _append_knowledge
AppendKnowledge(v, file, know, now) ==
    WriteWithKnowledge(v, file, [v[file] EXCEPT !.updated = now], v[file].body, know)

\* _update_note on the content read from the file: whether it writes the file,
\* and the content it writes.  v is the directory _add_wikilinks lists.
UpdatedNote(v, content, entity, rels, know, now) ==
    LET note     == [content EXCEPT !.updated = now]
        body     == content.body
        existing == ExtractExistingFacts(body)
        newFacts == SelectSeq(entity.facts, LAMBDA f : ~FactExists(f, existing))
        body1    == IF newFacts = <<>> THEN body
                    ELSE AppendUnder(body, "Facts", FactLines(newFacts, entity.name, v))
        links    == BodyLinks(body1)
        newRels  == SelectSeq(rels, LAMBDA r : RelOther(r, entity.name) \notin links)
        body2    == IF newRels = <<>> THEN body1
                    ELSE AppendUnder(body1, "Relations", RelLines(newRels, entity.name))
    IN  IF know # <<>> THEN [wrote |-> TRUE, note |-> WithKnowledge(v, note, body2, know)]
        ELSE IF newFacts # <<>> \/ newRels # <<>>
             THEN [wrote |-> TRUE, note |-> [note EXCEPT !.body = body2]]
        ELSE [wrote |-> FALSE, note |-> content]

\* _update_note
UpdateNote(v, file, entity, rels, know, now) ==
    LET out == UpdatedNote(v, v[file], entity, rels, know, now)
    IN  IF out.wrote THEN WriteNote(v, file, out.note) ELSE v

------------------------------------------------------------------------------
(* VaultManager.process_extraction *)

Exists(v, name) == v[EntityFilePath(name)] # NoNote

\* all_entity_names = {e.name for e in extraction.entities}
EntityNamesOfDelta(d) == {d.entities[i].name : i \in 1..Len(d.entities)}

StubEntity(name) == [name |-> name, type |-> "concept", facts |-> <<>>]

\* step 1, one entity of extraction.entities
ProcessEntity(st, d, entity, now) ==
    LET file == EntityFilePath(entity.name)
        rels == SelectSeq(d.relations, LAMBDA r : r.from = entity.name \/ r.to = entity.name)
        know == SelectSeq(d.knowledge, LAMBDA k : k.entity = entity.name)
    IN  IF st.v[file] # NoNote
        THEN [st EXCEPT !.v = UpdateNote(st.v, file, entity, rels, know, now),
                        !.updated = Append(st.updated, entity.name)]
        ELSE [st EXCEPT !.v = CreateNote(st.v, file, entity, rels, know, now),
                        !.created = Append(st.created, entity.name)]

RECURSIVE ProcessEntities(_, _, _, _)
ProcessEntities(st, d, i, now) ==
    IF i > Len(d.entities) THEN st
    ELSE ProcessEntities(ProcessEntity(st, d, d.entities[i], now), d, i + 1, now)

\* step 2, one entry of extraction.knowledge
ProcessKnowledge(st, k, now) ==
    IF k.entity # "" /\ k.entity \notin st.names
    THEN LET file == EntityFilePath(k.entity)
         IN  IF st.v[file] # NoNote
             THEN [st EXCEPT !.v = AppendKnowledge(st.v, file, <<k>>, now),
                             !.updated = IF k.entity \in Range(st.updated) THEN st.updated
                                         ELSE Append(st.updated, k.entity)]
             ELSE [st EXCEPT !.v = CreateNote(st.v, file, StubEntity(k.entity), <<>>, <<k>>, now),
                             !.created = Append(st.created, k.entity),
                             !.names = st.names \cup {k.entity}]
    ELSE st

RECURSIVE ProcessKnowledgeAll(_, _, _, _)
ProcessKnowledgeAll(st, d, i, now) ==
    IF i > Len(d.knowledge) THEN st
    ELSE ProcessKnowledgeAll(ProcessKnowledge(st, d.knowledge[i], now), d, i + 1, now)

\* step 3, one endpoint of one relation
ProcessEndpoint(st, name, now) ==
    IF name \notin st.names /\ st.v[EntityFilePath(name)] = NoNote
    THEN [st EXCEPT !.v = CreateNote(st.v, EntityFilePath(name), StubEntity(name), <<>>, <<>>, now),
                    !.created = Append(st.created, name),
                    !.names = st.names \cup {name}]
    ELSE st

\* mutant: only the target of a relation gets a stub
RECURSIVE ProcessRelationsTargetOnly(_, _, _, _)
ProcessRelationsTargetOnly(st, d, i, now) ==
    IF i > Len(d.relations) THEN st
    ELSE ProcessRelationsTargetOnly(ProcessEndpoint(st, d.relations[i].to, now), d, i + 1, now)

RECURSIVE ProcessRelations(_, _, _, _)
ProcessRelations(st, d, i, now) ==
    IF i > Len(d.relations) THEN st
    ELSE ProcessRelations(
            ProcessEndpoint(ProcessEndpoint(st, d.relations[i].from, now), d.relations[i].to, now),
            d, i + 1, now)

\* process_extraction(extraction): the vault it leaves and the stats it returns
ProcessExtractionResult(v, d, now) ==
    LET st0 == [v |-> v, created |-> <<>>, updated |-> <<>>,
                names |-> EntityNamesOfDelta(d)]
        st1 == ProcessEntities(st0, d, 1, now)
        st2 == ProcessKnowledgeAll(st1, d, 1, now)
    IN  ProcessRelations(st2, d, 1, now)

------------------------------------------------------------------------------
(* The extraction results fed to the vault *)

SeqsUpTo(S, n) == UNION {[1..k -> S] : k \in 0..n}

EmptyDelta == [entities |-> <<>>, relations |-> <<>>, knowledge |-> <<>>, episodes |-> <<>>,
               procedures |-> <<>>]

RECURSIVE SumLen(_, _)
SumLen(es, i) == IF i > Len(es) THEN 0 ELSE Len(es[i].facts) + SumLen(es, i + 1)

DeltaSize(d) == Len(d.entities) + SumLen(d.entities, 1) + Len(d.relations)
                + Len(d.knowledge) + Len(d.episodes)

\* ExtractedEntity, ExtractedRelation, ExtractedKnowledge, ExtractedEpisode
EntitiesOver(facts, n) == [name : EntityNames, type : {"person"}, facts : SeqsUpTo(facts, n)]
Relations == [from : EntityNames, to : EndpointNames, type : {"uses"}]
Knowledge == [entity : KnowledgeEntities, ktype : {"insight"}, title : Titles, content : {KContent}]
Episodes == [participants : {<<n>> : n \in EpisodeNames}]

\* extraction results of every kind of item, with at most one fact per entity
Deltas ==
    {d \in [entities : SeqsUpTo(EntitiesOver({F3}, 1), MaxEntities),
            relations : SeqsUpTo(Relations, 1),
            knowledge : SeqsUpTo(Knowledge, MaxKnowledge),
            episodes : SeqsUpTo(Episodes, 1),
            procedures : {<<>>}] : DeltaSize(d) <= MaxDeltaSize}

\* extraction results of entities with one fact of two, relations and knowledge
GrowDeltas ==
    {d \in [entities : SeqsUpTo(EntitiesOver({F1, F3}, 1), MaxEntities),
            relations : SeqsUpTo(Relations, 1),
            knowledge : SeqsUpTo(Knowledge, MaxKnowledge),
            episodes : {<<>>},
            procedures : {<<>>}] : DeltaSize(d) <= MaxDeltaSize}

\* extraction results that hold entities and facts only
FactDeltas ==
    {d \in [entities : SeqsUpTo(EntitiesOver(FactPool, MaxFacts), MaxEntities),
            relations : {<<>>}, knowledge : {<<>>}, episodes : {<<>>}, procedures : {<<>>}] :
        DeltaSize(d) <= MaxDeltaSize}

\* extraction results whose names hold a character a file name cannot: the
\* entities are "A", "C/D" and "C_D", a relation goes from "A" to "B" or "C/D"
SanitizeNames == {"A"} \cup SlashNames
SanitizeEntities == [name : SanitizeNames, type : {"person"}, facts : SeqsUpTo({F3}, 1)]
SanitizeRelations == [from : {"A"}, to : {"B", "C/D"}, type : {"uses"}]
SanitizeDeltas ==
    {d \in [entities : SeqsUpTo(SanitizeEntities, MaxEntities),
            relations : SeqsUpTo(SanitizeRelations, 1),
            knowledge : {<<>>}, episodes : {<<>>}, procedures : {<<>>}] :
        DeltaSize(d) <= MaxDeltaSize}

------------------------------------------------------------------------------
(* The note file: YAML header, then the body *)

Dashes == [kind |-> "dashes"]
Blank == [kind |-> "blank"]
YamlLine(k, v) == [kind |-> "yaml", key |-> k, val |-> v]

\* the keys of a header in the order yaml.dump writes them (sorted)
FrontmatterKeys == <<"created", "tags", "type", "updated">>

\* the header of a note: _create_note sets tags to [entity_type]
Frontmatter(note) ==
    [created |-> note.created, tags |-> <<note.type>>, type |-> note.type,
     updated |-> note.updated]

\* yaml.dump(frontmatter, default_flow_style=False).strip()
YamlDump(fm) ==
    LET keys == SelectSeq(FrontmatterKeys, LAMBDA k : k \in DOMAIN fm)
    IN  [i \in 1..Len(keys) |-> YamlLine(keys[i], fm[keys[i]])]

\* yaml.safe_load(match.group(1)) or {}
YamlLoad(lines) ==
    LET ys == SelectSeq(lines, LAMBDA l : l.kind = "yaml")
    IN  [k \in {ys[i].key : i \in 1..Len(ys)} |->
            ys[CHOOSE i \in 1..Len(ys) : ys[i].key = k /\ \A j \in (i + 1)..Len(ys) : ys[j].key # k].val]

\* str.strip() of a body: blank lines at either end go
RECURSIVE StripLeft(_)
StripLeft(ls) == IF ls # <<>> /\ ls[1] = Blank THEN StripLeft(Tail(ls)) ELSE ls
RECURSIVE StripRight(_)
StripRight(ls) ==
    IF ls # <<>> /\ ls[Len(ls)] = Blank THEN StripRight(SubSeq(ls, 1, Len(ls) - 1)) ELSE ls
Strip(ls) == StripRight(StripLeft(ls))

\* _format_with_frontmatter: "---\n{fm_str}\n---\n\n{body.strip()}\n"
FormatWithFrontmatter(fm, body) == <<Dashes>> \o YamlDump(fm) \o <<Dashes, Blank>> \o Strip(body)

\* _parse_frontmatter: re.match(r"^---\s*\n(.*?)\n---\s*\n", content); the header
\* ends at the first later "---" line, whose \s* also takes the blank lines
\* that follow it
ParseFrontmatter(content) ==
    LET closes == {j \in 2..Len(content) : content[j] = Dashes}
    IN  IF content # <<>> /\ content[1] = Dashes /\ closes # {}
        THEN LET j == CHOOSE c \in closes : \A o \in closes : c <= o
             IN  [fm |-> YamlLoad(SubSeq(content, 2, j - 1)),
                  body |-> StripLeft(SubSeq(content, j + 1, Len(content)))]
        ELSE [fm |-> << >>, body |-> content]

\* file_path.read_text() of a note the vault holds
FileText(note) == FormatWithFrontmatter(Frontmatter(note), note.body)

------------------------------------------------------------------------------
(* The vault store as a state machine *)

EmptyVault == [f \in Files |-> NoNote]

VaultInit ==
    /\ vault = EmptyVault
    /\ stats = [created |-> <<>>, updated |-> <<>>]
    /\ lastDelta = EmptyDelta
    /\ prevDelta = EmptyDelta
    /\ prevVault = EmptyVault
    /\ merges = 0
    /\ failed = FALSE

\* one process_extraction call, run to completion
ProcessExtraction(d) ==
    /\ merges < MaxMerges
    /\ LET r == ProcessExtractionResult(vault, d, merges + 1)
       IN  /\ vault' = r.v
           /\ stats' = [created |-> r.created, updated |-> r.updated]
    /\ lastDelta' = d
    /\ prevDelta' = lastDelta
    /\ prevVault' = vault
    /\ merges' = merges + 1
    /\ failed' = FALSE

\* step 1 for the first k entities only
RECURSIVE ProcessEntitiesUpTo(_, _, _, _, _)
ProcessEntitiesUpTo(st, d, i, k, now) ==
    IF i > k THEN st
    ELSE ProcessEntitiesUpTo(ProcessEntity(st, d, d.entities[i], now), d, i + 1, k, now)

\* one process_extraction call in which the file access for entity k + 1
\* raises (OSError from exists, read_text or write_text): nothing catches it,
\* the call ends there and returns no stats
ProcessExtractionFails(d, k) ==
    /\ k < Len(d.entities)
    /\ LET st0 == [v |-> vault, created |-> <<>>, updated |-> <<>>, names |-> EntityNamesOfDelta(d)]
       IN  vault' = ProcessEntitiesUpTo(st0, d, 1, k, merges + 1).v
    /\ stats' = stats
    /\ lastDelta' = d
    /\ prevDelta' = lastDelta
    /\ prevVault' = vault
    /\ merges' = merges + 1
    /\ failed' = TRUE

------------------------------------------------------------------------------
(* ConversationExtractor._parse_response *)

\* A completion is a sequence of pieces: "fence" is a ``` line, "{" an opening
\* brace with the members that follow it, "}" a closing brace, "prose" any
\* text that is not JSON.  Leading and trailing whitespace, which strip() and
\* json.loads ignore, is left out.
RawPieces == {"fence", "{", "}", "prose"}
RawResponses == SeqsUpTo(RawPieces, MaxRawLen)

\* json.loads succeeds: the text is one object
JsonValid(text) == text = <<"{", "}">>

\* clean = raw.strip(); a leading ``` line is dropped, and a closing one
CleanMarkdown(r) ==
    IF r # <<>> /\ r[1] = "fence"
    THEN IF r[Len(r)] = "fence" THEN SubSeq(r, 2, Len(r) - 1) ELSE SubSeq(r, 2, Len(r))
    ELSE r

\* raw.find("{"), with 0 for -1
FindOpen(r) ==
    IF \E i \in 1..Len(r) : r[i] = "{"
    THEN CHOOSE i \in 1..Len(r) : r[i] = "{" /\ \A j \in 1..(i - 1) : r[j] # "{"
    ELSE 0

\* raw.rfind("}"), with 0 for -1
FindClose(r) ==
    IF \E i \in 1..Len(r) : r[i] = "}"
    THEN CHOOSE i \in 1..Len(r) : r[i] = "}" /\ \A j \in (i + 1)..Len(r) : r[j] # "}"
    ELSE 0

\* start >= 0 and end > start
HasBraces(r) == FindOpen(r) > 0 /\ FindClose(r) >= FindOpen(r)

\* raw[start:end]
OutermostBraces(r) == SubSeq(r, FindOpen(r), FindClose(r))

\* the result built from the parsed object: data.get(key, []) for each list
BuildResult(data) ==
    [entities |-> data.entities, relations |-> data.relations, knowledge |-> data.knowledge,
     episodes |-> data.episodes, procedures |-> data.procedures]

\* mutant: the {...} substring is taken as parsed whenever it is found
ParseResponseLenient(r, data) ==
    IF JsonValid(CleanMarkdown(r)) THEN BuildResult(data)
    ELSE IF HasBraces(r) THEN BuildResult(data)
    ELSE EmptyDelta

\* _parse_response(raw), where data is what the members of the object decode to
ParseResponse(r, data) ==
    IF JsonValid(CleanMarkdown(r)) THEN BuildResult(data)
    ELSE IF HasBraces(r)
         THEN IF JsonValid(OutermostBraces(r)) THEN BuildResult(data) ELSE EmptyDelta
         ELSE EmptyDelta

\* the objects a completion decodes to in the model
PayloadFull ==
    [entities |-> <<[name |-> "A", type |-> "person", facts |-> <<>>]>>,
     relations |-> <<[from |-> "A", to |-> "B", type |-> "uses"]>>,
     knowledge |-> <<[entity |-> "A", ktype |-> "insight", title |-> "t1", content |-> KContent]>>,
     episodes |-> <<[participants |-> <<"B">>]>>,
     procedures |-> <<[name |-> "p1"]>>]
PayloadKnowledge ==
    [EmptyDelta EXCEPT !.knowledge =
        <<[entity |-> "B", ktype |-> "insight", title |-> "t2", content |-> KContent]>>]
Payloads == {EmptyDelta, PayloadFull, PayloadKnowledge}

------------------------------------------------------------------------------
(* _parse_response: from the decoded JSON object to the typed items *)

\* entity_type: person, project, technology, company, concept, place, activity
EntityTypes == {"person", "project", "technology", "company", "concept", "place", "activity"}
\* the relation types the extraction prompt lists
RelationTypes == {"works_at", "uses", "member_of", "related_to", "depends_on", "created_by",
                  "friend_of", "lives_in"}

\* dict.get(key, default)
DictGet(obj, key, default) == IF key \in DOMAIN obj THEN obj[key] ELSE default

\* JSON values of "importance": a number, in tenths, or a numeric string
JsonNum(n) == [t |-> "num", n |-> n]
JsonStr(s) == [t |-> "str", s |-> s]
ImportanceTenths == {0 - 5, 0, 5, 10, 15}
ImportanceValues == {JsonNum(n) : n \in ImportanceTenths} \cup {JsonStr("0.7"), JsonStr("1.5")}

\* float(x), in tenths
Float(x) == IF x.t = "num" THEN x.n ELSE IF x.s = "0.7" THEN 7 ELSE 15

\* the objects of the lists "entities", "relations" and "episodes"
JsonEntities ==
    {[name |-> "A"]} \cup {[name |-> "A", type |-> t] : t \in {"person", "concept", "animal", "Person"}}
JsonRelations ==
    {[from |-> "A", to |-> "B"]}
    \cup {[from |-> "A", to |-> "B", type |-> t] : t \in {"uses", "related_to", "loves"}}
JsonEpisodes ==
    {[participants |-> <<"B">>]}
    \cup {[participants |-> <<"B">>, importance |-> v] : v \in ImportanceValues}

\* the decoded objects: at most one item in each list, a list may be missing
JsonObjects ==
    {[entities |-> es, relations |-> rs, episodes |-> eps] :
        es \in SeqsUpTo(JsonEntities, 1), rs \in SeqsUpTo(JsonRelations, 1),
        eps \in SeqsUpTo(JsonEpisodes, 1)}
    \cup {[entities |-> es] : es \in SeqsUpTo(JsonEntities, 1)}

NoJson == [entities |-> <<>>]

\* ExtractedEntity(name=e.get("name", "Unknown"), entity_type=e.get("type", "concept"), ...)
ParseEntityObject(e) ==
    [name |-> DictGet(e, "name", "Unknown"), type |-> DictGet(e, "type", "concept"), facts |-> <<>>]

\* ExtractedRelation(from_entity=r.get("from", ""), ..., relation_type=r.get("type", "related_to"))
ParseRelationObject(r) ==
    [from |-> DictGet(r, "from", ""), to |-> DictGet(r, "to", ""), type |-> DictGet(r, "type", "related_to")]

\* ExtractedEpisode(..., importance=float(ep.get("importance", 0.5)))
ParseEpisodeObject(ep) ==
    [participants |-> DictGet(ep, "participants", <<>>),
     importance |-> Float(DictGet(ep, "importance", JsonNum(5)))]

\* the lists of the result, each from data.get(key, [])
ParseObject(data) ==
    LET es  == DictGet(data, "entities", <<>>)
        rs  == DictGet(data, "relations", <<>>)
        eps == DictGet(data, "episodes", <<>>)
    IN  [entities |-> [i \in 1..Len(es) |-> ParseEntityObject(es[i])],
         relations |-> [i \in 1..Len(rs) |-> ParseRelationObject(rs[i])],
         knowledge |-> <<>>,
         episodes |-> [i \in 1..Len(eps) |-> ParseEpisodeObject(eps[i])],
         procedures |-> <<>>]

\* _parse_response on a completion that is one JSON object
ParseJson ==
    \E data \in JsonObjects :
        /\ raw' = <<"{", "}">>
        /\ jsonIn' = data
        /\ parsedOut' = ParseObject(data)
        /\ parseRaised' = "none"

\* JSON values that are not objects, and importance values that are not numbers
NotAnObject == [json |-> "string"]
IsObject(x) == "json" \notin DOMAIN x
JsonNull == [t |-> "null"]
BadImportance == {JsonStr("high"), JsonNull}

\* float(x) raises: ValueError for a string that is no number, TypeError for None
FloatRaises(x) == x \in BadImportance

\* what json.loads can return at the top level
JsonTop(kind, v) == [t |-> kind, v |-> v]
JsonDocuments ==
    {JsonTop("list", NoJson), JsonTop("number", NoJson), JsonTop("string", NoJson)}
    \cup {JsonTop("object", o) : o \in JsonObjects}
    \cup {JsonTop("object", [entities |-> <<NotAnObject>>]),
          JsonTop("object", [entities |-> <<>>, relations |-> <<NotAnObject>>]),
          JsonTop("object", [entities |-> <<>>, episodes |-> <<NotAnObject>>])}
    \cup {JsonTop("object", [entities |-> <<>>,
                             episodes |-> <<[participants |-> <<"B">>, importance |-> v]>>]) :
            v \in BadImportance}

\* the completion text of a document: one object, or some other JSON value
RawOf(doc) == IF doc.t = "object" THEN <<"{", "}">> ELSE <<"value">>

\* the exception the loops over data raise, "none" when they run through:
\* data.get on a list, number or string, e.get / r.get / ep.get on an item that
\* is no object, float() on an importance that is no number
ParseRaises(doc) ==
    LET data == doc.v
        items(key) == DictGet(data, key, <<>>)
        nonObject(key) == \E i \in 1..Len(items(key)) : ~IsObject(items(key)[i])
    IN  IF doc.t # "object" THEN "AttributeError"
        ELSE IF nonObject("entities") \/ nonObject("relations") \/ nonObject("episodes")
        THEN "AttributeError"
        ELSE IF \E i \in 1..Len(items("episodes")) :
                    FloatRaises(DictGet(items("episodes")[i], "importance", JsonNum(5)))
        THEN IF \E i \in 1..Len(items("episodes")) :
                    DictGet(items("episodes")[i], "importance", JsonNum(5)) = JsonNull
             THEN "TypeError" ELSE "ValueError"
        ELSE "none"

\* _parse_response on a completion that json.loads accepts
ParseDocument ==
    \E doc \in JsonDocuments :
        /\ raw' = RawOf(doc)
        /\ jsonIn' = doc
        /\ parseRaised' = ParseRaises(doc)
        /\ parsedOut' = IF ParseRaises(doc) = "none" THEN ParseObject(doc.v) ELSE EmptyDelta

ParseIdle ==
    /\ raw = <<>>
    /\ jsonIn = NoJson
    /\ parsedOut = EmptyDelta
    /\ parseRaised = "none"

------------------------------------------------------------------------------
(* Two process_extraction calls on one vault, interleaved at their file      *)
(* accesses.  VaultManager takes no lock (vault_manager.py 34-88).  exists() *)
(* and read_text() of one entity are taken as one step, the directory        *)
(* listing of _add_wikilinks and write_text() as one step, and steps 2 and 3 *)
(* of process_extraction as one step.                                        *)

Workers == {1, 2}

ConcDeltas == {d \in FactDeltas : Len(d.entities) <= 1 /\ DeltaSize(d) <= MaxConcDeltaSize}

ConcStartVaults ==
    {EmptyVault} \cup {ProcessExtractionResult(EmptyVault, d, 1).v : d \in ConcDeltas}

FirstPc(d) == IF d.entities = <<>> THEN "rest" ELSE "check"

ConcIdle ==
    /\ startVault = EmptyVault
    /\ wDelta = [w \in Workers |-> EmptyDelta]
    /\ wPc = [w \in Workers |-> "idle"]
    /\ wIdx = [w \in Workers |-> 1]
    /\ wSnap = [w \in Workers |-> NoNote]

\* both calls are made, on a vault an earlier process_extraction left
ConcInit ==
    /\ vault \in ConcStartVaults
    /\ startVault = vault
    /\ wDelta \in [Workers -> ConcDeltas]
    /\ wPc = [w \in Workers |-> FirstPc(wDelta[w])]
    /\ wIdx = [w \in Workers |-> 1]
    /\ wSnap = [w \in Workers |-> NoNote]
    /\ stats = [created |-> <<>>, updated |-> <<>>]
    /\ lastDelta = EmptyDelta
    /\ prevDelta = EmptyDelta
    /\ prevVault = EmptyVault
    /\ merges = 1
    /\ failed = FALSE
    /\ ParseIdle

\* file_path.exists() and, for an existing file, read_text()   (lines 55, 138)
CheckFile(w) ==
    /\ wPc[w] = "check"
    /\ wSnap' = [wSnap EXCEPT ![w] = vault[EntityFilePath(wDelta[w].entities[wIdx[w]].name)]]
    /\ wPc' = [wPc EXCEPT ![w] = "write"]
    /\ UNCHANGED <<vault, startVault, wDelta, wIdx>>

\* the rest of _update_note or _create_note for that entity: write_text()
WriteFile(w) ==
    /\ wPc[w] = "write"
    /\ LET d      == wDelta[w]
           entity == d.entities[wIdx[w]]
           file   == EntityFilePath(entity.name)
           rels   == SelectSeq(d.relations, LAMBDA r : r.from = entity.name \/ r.to = entity.name)
           know   == SelectSeq(d.knowledge, LAMBDA k : k.entity = entity.name)
           out    == UpdatedNote(vault, wSnap[w], entity, rels, know, merges + 1)
       IN  vault' = IF wSnap[w] = NoNote
                    THEN CreateNote(vault, file, entity, rels, know, merges + 1)
                    ELSE IF out.wrote THEN WriteNote(vault, file, out.note) ELSE vault
    /\ wIdx' = [wIdx EXCEPT ![w] = @ + 1]
    /\ wPc' = [wPc EXCEPT ![w] = IF wIdx[w] + 1 > Len(wDelta[w].entities) THEN "rest" ELSE "check"]
    /\ UNCHANGED <<startVault, wDelta, wSnap>>

\* steps 2 and 3 of process_extraction, then return
FinishCall(w) ==
    /\ wPc[w] = "rest"
    /\ LET d   == wDelta[w]
           st0 == [v |-> vault, created |-> <<>>, updated |-> <<>>, names |-> EntityNamesOfDelta(d)]
       IN  vault' = ProcessRelations(ProcessKnowledgeAll(st0, d, 1, merges + 1), d, 1, merges + 1).v
    /\ wPc' = [wPc EXCEPT ![w] = "done"]
    /\ UNCHANGED <<startVault, wDelta, wIdx, wSnap>>

ConcStep(w) ==
    /\ CheckFile(w) \/ WriteFile(w) \/ FinishCall(w)
    /\ UNCHANGED <<stats, lastDelta, prevDelta, prevVault, merges, failed, parseVars>>

------------------------------------------------------------------------------
(* HybridRetrieval.query *)

QueryIds == {"n1", "n2", "n3"}

\* a graph: its entity nodes and its directed relations between them
QueryGraphs ==
    UNION {[nodes : {ns}, edges : SUBSET {e \in ns \X ns : e[1] # e[2]}] : ns \in SUBSET QueryIds}

EmptyGraph == [nodes |-> {}, edges |-> {}]

\* edges are stored both outgoing and incoming
Adjacent(g, x) == {y \in g.nodes : <<x, y>> \in g.edges \/ <<y, x>> \in g.edges}

\* breadth-first expansion, deduplicated by entity id in visit order
RECURSIVE Bfs(_, _, _, _, _)
Bfs(g, frontier, visited, acc, depth) ==
    IF depth = 0 \/ frontier = {} THEN acc
    ELSE LET next == (UNION {Adjacent(g, x) : x \in frontier}) \ visited
         IN  Bfs(g, next, visited \cup next, acc \o SeqOfSet(next), depth - 1)

\* graph.get_neighbors(entity_id, depth)
GetNeighbors(g, id, depth) == Bfs(g, {id}, {id}, <<>>, depth)

\* graph.get_entity(entity_id)
GetEntity(g, id) == id \in g.nodes

\* for neighbor in neighbors: appended unless its id is in seen_entities
RECURSIVE AddNeighbors(_, _, _)
AddNeighbors(st, ns, i) ==
    IF i > Len(ns) THEN st
    ELSE AddNeighbors(
            IF ns[i] \notin st.seen
            THEN [seen |-> st.seen \cup {ns[i]}, ctx |-> Append(st.ctx, ns[i])]
            ELSE st,
            ns, i + 1)

\* for match in result.direct_matches
RECURSIVE ExpandMatches(_, _, _, _, _)
ExpandMatches(st, g, matches, i, depth) ==
    IF i > Len(matches) THEN st
    ELSE LET id  == matches[i]
             st1 == [st EXCEPT !.seen = @ \cup {id}]
         IN  ExpandMatches(
                IF id \in st.seen THEN st
                ELSE IF ~GetEntity(g, id) THEN st1
                ELSE AddNeighbors(st1, GetNeighbors(g, id, depth), 1),
                g, matches, i + 1, depth)

\* the graph_context of query(text, top_k, graph_depth)
GraphContext(g, matches, depth) ==
    ExpandMatches([seen |-> {}, ctx |-> <<>>], g, matches, 1, depth).ctx

\* entity.entity_type of the entities of the graph: n3 is a tag
EntityTypeOf(id) == IF id = "n3" THEN "tag" ELSE "concept"

\* _assemble_context(result): the headers it prints and the entities it lists
\* under "Related entities" (one relation type)
AssembleContext(matches, ctx) ==
    [fragmentsHeader |-> matches # <<>>,
     relatedHeader |-> ctx # <<>>,
     related |-> SelectSeq(ctx, LAMBDA id : EntityTypeOf(id) # "tag")]

QueryInit ==
    /\ qGraph = EmptyGraph
    /\ qMatches = <<>>
    /\ qDepth = 1
    /\ qContext = <<>>
    /\ qAssembled = AssembleContext(<<>>, <<>>)

\* HybridRetrieval(graph, vector_store): the retriever is built over a graph
QueryStart ==
    /\ qGraph \in QueryGraphs
    /\ qMatches = <<>>
    /\ qDepth = 1
    /\ qContext = <<>>
    /\ qAssembled = AssembleContext(<<>>, <<>>)

\* one query call: the vector search returns the matches, the graph is expanded
Query ==
    \E matches \in SeqsUpTo(QueryIds, MaxMatches), depth \in 1..MaxDepth :
        /\ qGraph' = qGraph
        /\ qMatches' = matches
        /\ qDepth' = depth
        /\ qContext' = GraphContext(qGraph, matches, depth)
        /\ qAssembled' = AssembleContext(matches, GraphContext(qGraph, matches, depth))

------------------------------------------------------------------------------
(* The Memory SDK: one vault directory per user_id under base_vault_path *)

\* a user_id is the sequence of the path components of base_vault_path / user_id
UserIds == {<<"a">>, <<"a", "b">>}

MemNames == {"A", "B"}

MemDeltas == {d \in FactDeltas : DeltaSize(d) <= MaxMemDeltaSize}

\* the directory of v lies in the directory of u, or is it
IsInside(v, u) == Len(u) <= Len(v) /\ SubSeq(v, 1, Len(u)) = u

\* a file whose name starts with "." is skipped
Hidden(n) == n = ""

\* parse_vault(vault_path): vault.rglob("*.md"), every directory below included
ParseVault(dk, u) ==
    UNION {{[dir |-> v, name |-> Stem(n)] : n \in {m \in dk[v] : ~Hidden(m)}}
           : v \in {w \in UserIds : IsInside(w, u)}}

\* vault_path.glob("*.md"): the files of the directory itself
OwnNotes(dk, u) == {[dir |-> u, name |-> Stem(n)] : n \in dk[u]}

NoCache == [built |-> FALSE, notes |-> {}]
BuiltFrom(notes) == [built |-> TRUE, notes |-> notes]

\* brain.graph and brain.vector_store: built from the vault on first use
LazyView(cache, dk, u) == IF cache[u].built THEN cache[u] ELSE BuiltFrom(ParseVault(dk, u))

\* the files of a directory after process_extraction(d): existence of a file
\* is all process_extraction asks of the files it does not write
StubVault(names) ==
    [f \in Files |-> IF f \in names
                     THEN [type |-> "concept", created |-> 0, updated |-> 0, body |-> <<H1Line(f)>>]
                     ELSE NoNote]
FilesAfter(names, d) == {f \in Files : ProcessExtractionResult(StubVault(names), d, 1).v[f] # NoNote}

NoOp == [op |-> "none", user |-> <<>>, name |-> "", read |-> {}, found |-> FALSE]

MemoryInit ==
    /\ disk = [u \in UserIds |-> {}]
    /\ prevDisk = [u \in UserIds |-> {}]
    /\ graphCache = [u \in UserIds |-> NoCache]
    /\ vecCache = [u \in UserIds |-> NoCache]
    /\ deleted = [u \in UserIds |-> {}]
    /\ lastOp = NoOp
    /\ ops = 0

Called(op, u, name, read, found) ==
    /\ lastOp' = [op |-> op, user |-> u, name |-> name, read |-> read, found |-> found]
    /\ prevDisk' = disk
    /\ ops' = ops + 1

\* Memory.add: brain.remember writes the notes and drops both derived views
Add(u, d) ==
    /\ disk' = [disk EXCEPT ![u] = FilesAfter(disk[u], d)]
    /\ graphCache' = [graphCache EXCEPT ![u] = NoCache]
    /\ vecCache' = [vecCache EXCEPT ![u] = NoCache]
    /\ deleted' = [deleted EXCEPT ![u] = @ \ FilesAfter(disk[u], d)]
    /\ Called("add", u, "", {}, FALSE)

\* Memory.search: brain.search over the vector index, brain.recall over both
Search(u) ==
    /\ vecCache' = [vecCache EXCEPT ![u] = LazyView(vecCache, disk, u)]
    /\ graphCache' = [graphCache EXCEPT ![u] = LazyView(graphCache, disk, u)]
    /\ Called("search", u, "", LazyView(vecCache, disk, u).notes,
              LazyView(vecCache, disk, u).notes # {})
    /\ UNCHANGED <<disk, deleted>>

\* Memory.get_all
GetAll(u) ==
    /\ graphCache' = [graphCache EXCEPT ![u] = LazyView(graphCache, disk, u)]
    /\ Called("get_all", u, "", LazyView(graphCache, disk, u).notes,
              LazyView(graphCache, disk, u).notes # {})
    /\ UNCHANGED <<disk, vecCache, deleted>>

\* Memory.get: graph.find_entity(entity_name), None when there is none
Get(u, name) ==
    /\ graphCache' = [graphCache EXCEPT ![u] = LazyView(graphCache, disk, u)]
    /\ LET hits == {n \in LazyView(graphCache, disk, u).notes : Lower(n.name) = Lower(name)}
       IN  Called("get", u, name, hits, hits # {})
    /\ UNCHANGED <<disk, vecCache, deleted>>

\* Memory.delete: unlinks the file and sets brain._graph = None
Delete(u, name) ==
    /\ IF EntityFilePath(name) \in disk[u]
       THEN /\ disk' = [disk EXCEPT ![u] = @ \ {EntityFilePath(name)}]
            /\ graphCache' = [graphCache EXCEPT ![u] = NoCache]
            /\ deleted' = [deleted EXCEPT ![u] = @ \cup {name}]
            /\ Called("delete", u, name, {}, TRUE)
       ELSE /\ UNCHANGED <<disk, graphCache, deleted>>
            /\ Called("delete", u, name, {}, FALSE)
    /\ UNCHANGED vecCache

\* Memory.stats: total_notes counts vault_path.glob("*.md")
Stats(u) ==
    /\ Called("stats", u, "", OwnNotes(disk, u), disk[u] # {})
    /\ UNCHANGED <<disk, graphCache, vecCache, deleted>>

MemoryCall ==
    /\ ops < MaxOps
    /\ \E u \in UserIds :
          \/ \E d \in MemDeltas : Add(u, d)
          \/ Search(u)
          \/ GetAll(u)
          \/ \E n \in MemNames : Get(u, n)
          \/ \E n \in MemNames : Delete(u, n)
          \/ Stats(u)

------------------------------------------------------------------------------
(* Upstream calls with retry: CloudEmbedder.embed_batch and the benchmark's  *)
(* ingest_conversation                                                       *)

\* what one upstream request does: it answers, or it raises
UpstreamErrors == {"HTTPStatusError", "ConnectError", "KeyError"}
UpstreamOutcomes == {"ok"} \cup UpstreamErrors

\* max_retries: int = 2
EmbedMaxRetries == 2

NoEmbedCall == [texts |-> 0, upstream |-> <<>>]
NoEmbedResult == [requests |-> 0, waits |-> <<>>, result |-> "none", error |-> "none"]

\* for attempt in range(max_retries + 1)
RECURSIVE EmbedAttempt(_, _, _)
EmbedAttempt(upstream, attempt, waits) ==
    IF upstream[attempt + 1] = "ok"
    THEN [requests |-> attempt + 1, waits |-> waits, result |-> "returned", error |-> "none"]
    ELSE IF attempt < EmbedMaxRetries
         THEN EmbedAttempt(upstream, attempt + 1, Append(waits, (attempt + 1) * 1))
         ELSE [requests |-> attempt + 1, waits |-> waits, result |-> "raised",
               error |-> upstream[attempt + 1]]

\* embed_batch(texts): upstream[i] is what the i-th request would do
EmbedBatch ==
    \E n \in 1..MaxBatch, upstream \in [1..(EmbedMaxRetries + 1) -> UpstreamOutcomes] :
        /\ embedIn' = [texts |-> n, upstream |-> upstream]
        /\ embedOut' = EmbedAttempt(upstream, 0, <<>>)
        /\ UNCHANGED <<ingestIn, ingestOut>>

MAX_RETRIES == 3
RETRY_BACKOFF_S == 10

IngestOutcomes == {"ok", "error"}

NoIngestCall == [chunks |-> 0, upstream |-> <<>>, already |-> FALSE]
NoIngestResult == [perChunk |-> <<>>, total |-> 0, ingested |-> FALSE, saved |-> FALSE,
                   raised |-> FALSE]

\* for attempt in range(MAX_RETRIES), for one chunk
RECURSIVE IngestAttempt(_, _, _)
IngestAttempt(upstream, attempt, waits) ==
    IF attempt >= MAX_RETRIES
    THEN [requests |-> attempt, waits |-> waits, ok |-> FALSE]
    ELSE IF upstream[attempt + 1] = "ok"
    THEN [requests |-> attempt + 1, waits |-> waits, ok |-> TRUE]
    ELSE IF attempt < MAX_RETRIES - 1
         THEN IngestAttempt(upstream, attempt + 1, Append(waits, RETRY_BACKOFF_S * (attempt + 1)))
         ELSE IngestAttempt(upstream, attempt + 1, waits)

RECURSIVE CountOk(_, _)
CountOk(perChunk, i) ==
    IF i > Len(perChunk) THEN 0
    ELSE (IF perChunk[i].ok THEN 1 ELSE 0) + CountOk(perChunk, i + 1)

\* ingest_conversation: upstream[c][i] is what the i-th client.add of chunk c
\* (with its wait_for_job) would do
IngestResult(call) ==
    IF call.already THEN [NoIngestResult EXCEPT !.ingested = TRUE]
    ELSE LET perChunk == [c \in 1..call.chunks |-> IngestAttempt(call.upstream[c], 0, <<>>)]
         IN  [perChunk |-> perChunk, total |-> CountOk(perChunk, 1), ingested |-> TRUE,
              saved |-> TRUE, raised |-> FALSE]

IngestConversation ==
    \E n \in 1..MaxChunks, already \in BOOLEAN :
        \E upstream \in [1..n -> [1..(MAX_RETRIES + 1) -> IngestOutcomes]] :
            /\ ingestIn' = [chunks |-> n, upstream |-> upstream, already |-> already]
            /\ ingestOut' = IngestResult(ingestIn')
            /\ UNCHANGED <<embedIn, embedOut>>

ClientInit ==
    /\ embedIn = NoEmbedCall
    /\ embedOut = NoEmbedResult
    /\ ingestIn = NoIngestCall
    /\ ingestOut = NoIngestResult

------------------------------------------------------------------------------
(* integrations/langchain.py: MengramChatMessageHistory *)

\* extract_every: int = 4
ExtractEveryDefault == 4
ExtractEveryValues == {2, ExtractEveryDefault}

\* __init__: no messages, nothing pending, _msg_count = 0
NewHistory(auto, every) ==
    [auto |-> auto, every |-> every, messages |-> 0, pending |-> 0, msgCount |-> 0,
     op |-> "init", unextracted |-> 0, sent |-> 0, addOk |-> TRUE]

\* _extract_pending: with nothing pending it returns; else the pending messages
\* go to client.add, whose exception is logged, and _pending is emptied
ExtractPending(h, addOk) ==
    IF h.pending = 0 THEN h
    ELSE [h EXCEPT !.sent = h.pending, !.addOk = addOk, !.pending = 0]

\* add_messages(messages) with k messages; add_message(m) is add_messages([m])
AddMessages(h, k, addOk) ==
    LET h1 == [h EXCEPT !.messages = @ + k, !.pending = @ + k, !.msgCount = @ + k,
                        !.op = "add_messages", !.unextracted = h.pending + k,
                        !.sent = 0, !.addOk = TRUE]
    IN  IF h1.auto /\ h1.msgCount >= h1.every
        THEN [ExtractPending(h1, addOk) EXCEPT !.msgCount = 0]
        ELSE h1

\* flush()
FlushHistory(h, addOk) ==
    ExtractPending([h EXCEPT !.op = "flush", !.unextracted = h.pending, !.sent = 0,
                             !.addOk = TRUE], addOk)

\* clear()
ClearHistory(h) ==
    [h EXCEPT !.messages = 0, !.pending = 0, !.msgCount = 0, !.op = "clear",
              !.unextracted = 0, !.sent = 0, !.addOk = TRUE]

HistoryIdle == history = NewHistory(TRUE, ExtractEveryDefault)

\* MengramChatMessageHistory(api_key, auto_extract=..., extract_every=...)
HistoryStart ==
    \E auto \in BOOLEAN, every \in ExtractEveryValues : history = NewHistory(auto, every)

HistoryStep ==
    \/ /\ history.messages + MaxAdd <= MaxHistoryMessages
       /\ \E k \in 0..MaxAdd, addOk \in BOOLEAN : history' = AddMessages(history, k, addOk)
    \/ \E addOk \in BOOLEAN : history' = FlushHistory(history, addOk)
    \/ history' = ClearHistory(history)

------------------------------------------------------------------------------
(* integrations/langchain.py: MengramMemory *)

\* if len(self._buffer) >= 4
FlushAt == 4

\* __init__: the buffer is empty
\* (lost counts the messages of the client.add calls that raised)
NewMemory ==
    [buffer |-> <<>>, passed |-> <<>>, saved |-> 0, lost |-> 0, op |-> "init", addOk |-> TRUE]

\* mutant: the buffer is not emptied after client.add
FlushBufferKeeping(m, addOk) ==
    IF m.buffer = <<>> THEN m
    ELSE [m EXCEPT !.passed = @ \o m.buffer, !.addOk = addOk,
                   !.lost = IF addOk THEN @ ELSE @ + Len(m.buffer)]

\* _flush: with an empty buffer it returns; else the buffer goes to client.add,
\* whose exception is logged, and the buffer is emptied
FlushBuffer(m, addOk) ==
    IF m.buffer = <<>> THEN m
    ELSE [m EXCEPT !.passed = @ \o m.buffer, !.addOk = addOk, !.buffer = <<>>,
                   !.lost = IF addOk THEN @ ELSE @ + Len(m.buffer)]

\* save_context(inputs, outputs): messages are numbered in the order saved
SaveContext(m, hasInput, hasOutput, addOk) ==
    LET m0 == [m EXCEPT !.op = "save_context", !.addOk = TRUE]
        m1 == [m0 EXCEPT !.buffer = Append(@, m.saved + 1), !.saved = @ + 1]
        m2 == IF hasOutput
              THEN [m1 EXCEPT !.buffer = Append(@, m1.saved + 1), !.saved = @ + 1]
              ELSE m1
    IN  IF ~hasInput THEN m0
        ELSE IF Len(m2.buffer) >= FlushAt THEN FlushBuffer(m2, addOk)
        ELSE m2

\* clear(): _flush, then the buffer is emptied
ClearMemory(m, addOk) ==
    [FlushBuffer([m EXCEPT !.op = "clear", !.addOk = TRUE], addOk) EXCEPT !.buffer = <<>>]

MemoryIdle == lcMemory = NewMemory

LcMemoryStep ==
    \/ /\ lcMemory.saved + 2 <= MaxSaved
       /\ \E hasInput \in BOOLEAN, hasOutput \in BOOLEAN, addOk \in BOOLEAN :
             lcMemory' = SaveContext(lcMemory, hasInput, hasOutput, addOk)
    \/ \E addOk \in BOOLEAN : lcMemory' = ClearMemory(lcMemory, addOk)

------------------------------------------------------------------------------
(* mengram_middleware.py: AutoMemory *)

UserMessage(n) == [role |-> "user", id |-> n]
AssistantMessage(n) == [role |-> "assistant", id |-> n]

\* __init__: conversation_history is empty
NewAutoMemory(autoRecall, autoRemember) ==
    [autoRecall |-> autoRecall, autoRemember |-> autoRemember, history |-> <<>>,
     before |-> <<>>, op |-> "init", result |-> "none", turns |-> 0, remembered |-> FALSE]

\* chat(message) on the history hist: brain.recall, llm.complete and memory.add
\* each answer or raise; only the exception of memory.add is caught
ChatOn(a, hist, op, recallOk, llmOk, rememberOk) ==
    LET n  == a.turns + 1
        a0 == [a EXCEPT !.op = op, !.before = a.history, !.turns = n, !.remembered = FALSE,
                        !.history = hist]
        h1 == Append(hist, UserMessage(n))
        h2 == Append(h1, AssistantMessage(n))
    IN  IF a.autoRecall /\ ~recallOk THEN [a0 EXCEPT !.result = "raised"]
        ELSE IF ~llmOk THEN [a0 EXCEPT !.history = h1, !.result = "raised"]
        ELSE [a0 EXCEPT !.history = h2, !.result = "returned",
                        !.remembered = a.autoRemember /\ rememberOk]

\* chat(message)
Chat(a, recallOk, llmOk, rememberOk) == ChatOn(a, a.history, "chat", recallOk, llmOk, rememberOk)

\* the message lists given to chat_with_history: earlier turns are numbered 0
GivenHistories ==
    {<<>>, <<UserMessage(0)>>, <<UserMessage(0), AssistantMessage(0), UserMessage(0)>>}

\* chat_with_history(messages): "" for no messages; else the history becomes
\* messages[:-1] and the last message is sent with chat
ChatWithHistory(a, messages, recallOk, llmOk, rememberOk) ==
    IF messages = <<>>
    THEN [a EXCEPT !.op = "chat_with_history", !.before = a.history, !.result = "returned",
                   !.remembered = FALSE]
    ELSE ChatOn(a, SubSeq(messages, 1, Len(messages) - 1), "chat_with_history",
                recallOk, llmOk, rememberOk)

\* reset()
ResetAutoMemory(a) ==
    [a EXCEPT !.op = "reset", !.before = a.history, !.history = <<>>, !.result = "returned",
              !.remembered = FALSE]

AutoMemoryIdle == autoMem = NewAutoMemory(TRUE, TRUE)

\* AutoMemory(memory, auto_remember=..., auto_recall=...)
AutoMemoryStart ==
    \E autoRecall \in BOOLEAN, autoRemember \in BOOLEAN :
        autoMem = NewAutoMemory(autoRecall, autoRemember)

AutoMemoryStep ==
    \/ /\ autoMem.turns < MaxTurns
       /\ \E recallOk \in BOOLEAN, llmOk \in BOOLEAN, rememberOk \in BOOLEAN :
             \/ autoMem' = Chat(autoMem, recallOk, llmOk, rememberOk)
             \/ \E messages \in GivenHistories :
                   autoMem' = ChatWithHistory(autoMem, messages, recallOk, llmOk, rememberOk)
    \/ autoMem' = ResetAutoMemory(autoMem)

SessionIdle == HistoryIdle /\ MemoryIdle /\ AutoMemoryIdle

------------------------------------------------------------------------------
(* Specifications *)

Init == VaultInit /\ ParseIdle /\ ConcIdle /\ QueryInit /\ MemoryInit /\ ClientInit /\ SessionIdle

\* process_extraction on any extraction result
Merge ==
    /\ merges < MaxMerges
    /\ \E d \in Deltas : ProcessExtraction(d)
    /\ UNCHANGED <<parseVars, concVars, queryVars, memVars, clientVars, sessionVars>>

\* process_extraction on extraction results of entities and facts
MergeFacts ==
    /\ merges < MaxMerges
    /\ \E d \in FactDeltas : ProcessExtraction(d)
    /\ UNCHANGED <<parseVars, concVars, queryVars, memVars, clientVars, sessionVars>>

\* process_extraction on extraction results of entities and facts, raising
\* at one of the entities
MergeFactsFails ==
    /\ merges < MaxMerges
    /\ \E d \in FactDeltas : \E k \in 0..MaxEntities : ProcessExtractionFails(d, k)
    /\ UNCHANGED <<parseVars, concVars, queryVars, memVars, clientVars, sessionVars>>

\* process_extraction on extraction results that make notes grow
MergeGrow ==
    /\ merges < MaxMerges
    /\ \E d \in GrowDeltas : ProcessExtraction(d)
    /\ UNCHANGED <<parseVars, concVars, queryVars, memVars, clientVars, sessionVars>>

\* process_extraction on extraction results with names that are sanitized
MergeSanitize ==
    /\ merges < MaxMerges
    /\ \E d \in SanitizeDeltas : ProcessExtraction(d)
    /\ UNCHANGED <<parseVars, concVars, queryVars, memVars, clientVars, sessionVars>>

\* remember: the completion is parsed and the result handed to the vault
RememberResponse ==
    /\ merges < MaxMerges
    /\ \E r \in RawResponses, data \in Payloads :
          /\ raw' = r
          /\ ProcessExtraction(ParseResponse(r, data))
          /\ UNCHANGED <<jsonIn, parsedOut, parseRaised>>
    /\ UNCHANGED <<concVars, queryVars, memVars, clientVars, sessionVars>>

ConcCall ==
    /\ \E w \in Workers : ConcStep(w)
    /\ UNCHANGED <<queryVars, memVars, clientVars, sessionVars>>

QueryCall ==
    /\ Query
    /\ UNCHANGED <<vaultVars, parseVars, concVars, memVars, clientVars, sessionVars>>

MemoryStep ==
    /\ MemoryCall
    /\ UNCHANGED <<vaultVars, parseVars, concVars, queryVars, clientVars, sessionVars>>

vars == <<vaultVars, parseVars, concVars, queryVars, memVars, clientVars, sessionVars>>

Next == Merge

Spec == Init /\ [][Next]_vars

NextFacts == MergeFacts

SpecFacts == Init /\ [][NextFacts]_vars

NextFail == MergeFacts \/ MergeFactsFails

SpecFail == Init /\ [][NextFail]_vars

NextGrow == MergeGrow

SpecGrow == Init /\ [][NextGrow]_vars

NextSanitize == MergeSanitize

SpecSanitize == Init /\ [][NextSanitize]_vars

ParseCall ==
    /\ ParseJson
    /\ UNCHANGED <<vaultVars, concVars, queryVars, memVars, clientVars, sessionVars>>

NextFields == ParseCall

SpecFields == Init /\ [][NextFields]_vars

ParseAnyCall ==
    /\ ParseDocument
    /\ UNCHANGED <<vaultVars, concVars, queryVars, memVars, clientVars, sessionVars>>

NextTotal == ParseAnyCall

SpecTotal == Init /\ [][NextTotal]_vars

NextParse == RememberResponse

SpecParse == Init /\ [][NextParse]_vars

NextConc == ConcCall

InitConc == ConcInit /\ QueryInit /\ MemoryInit /\ ClientInit /\ SessionIdle

SpecConc == InitConc /\ [][NextConc]_vars

NextQuery == QueryCall

InitQuery == VaultInit /\ ParseIdle /\ ConcIdle /\ QueryStart /\ MemoryInit /\ ClientInit /\ SessionIdle

SpecQuery == InitQuery /\ [][NextQuery]_vars

EmbedCall ==
    /\ EmbedBatch
    /\ UNCHANGED <<vaultVars, parseVars, concVars, queryVars, memVars, sessionVars>>

IngestCall ==
    /\ IngestConversation
    /\ UNCHANGED <<vaultVars, parseVars, concVars, queryVars, memVars, sessionVars>>

NextEmbed == EmbedCall

SpecEmbed == Init /\ [][NextEmbed]_vars

NextIngest == IngestCall

SpecIngest == Init /\ [][NextIngest]_vars

HistoryCall ==
    /\ HistoryStep
    /\ UNCHANGED <<vaultVars, parseVars, concVars, queryVars, memVars, clientVars, lcMemory, autoMem>>

InitHistory ==
    /\ VaultInit /\ ParseIdle /\ ConcIdle /\ QueryInit /\ MemoryInit /\ ClientInit
    /\ HistoryStart /\ MemoryIdle /\ AutoMemoryIdle

NextHistory == HistoryCall

SpecHistory == InitHistory /\ [][NextHistory]_vars

LcMemoryCall ==
    /\ LcMemoryStep
    /\ UNCHANGED <<vaultVars, parseVars, concVars, queryVars, memVars, clientVars, history, autoMem>>

NextLcMemory == LcMemoryCall

SpecLcMemory == Init /\ [][NextLcMemory]_vars

AutoMemoryCall ==
    /\ AutoMemoryStep
    /\ UNCHANGED <<vaultVars, parseVars, concVars, queryVars, memVars, clientVars, history, lcMemory>>

InitAutoMemory ==
    /\ VaultInit /\ ParseIdle /\ ConcIdle /\ QueryInit /\ MemoryInit /\ ClientInit
    /\ HistoryIdle /\ MemoryIdle /\ AutoMemoryStart

NextAutoMemory == AutoMemoryCall

SpecAutoMemory == InitAutoMemory /\ [][NextAutoMemory]_vars

NextMemory == MemoryStep

SpecMemory == Init /\ [][NextMemory]_vars

------------------------------------------------------------------------------
(* Observations on notes *)

NoteFiles(v) == {f \in Files : v[f] # NoNote}

FactBullets(note) == {i \in 1..Len(note.body) : note.body[i].kind = "fact"}

FactCount(note) == Cardinality(FactBullets(note))

KnowledgeEntries(note) == {i \in 1..Len(note.body) : note.body[i].kind = "know"}

\* more than 0.7 of the words of bullet i also occur in bullet j
NearDuplicate(note, i, j) ==
    Overlaps(CleanWords(note.body[i].items), CleanWords(note.body[j].items))

EntityNamesOf(d) == EntityNamesOfDelta(d)
EndpointsOf(d) == UNION {{d.relations[i].from, d.relations[i].to} : i \in 1..Len(d.relations)}
KnowledgeEntitiesOf(d) == {d.knowledge[i].entity : i \in 1..Len(d.knowledge)}
ParticipantsOf(d) == UNION {Range(d.episodes[i].participants) : i \in 1..Len(d.episodes)}

------------------------------------------------------------------------------
(* Claims on the vault store *)

\* C2 (as claimed): after any sequence of process_extraction calls no entity
\* note holds two fact bullets one of which is a near-duplicate of the other.
C2_NoNearDuplicateFacts ==
    \A f \in NoteFiles(vault) :
        \A i, j \in FactBullets(vault[f]) : i # j => ~NearDuplicate(vault[f], i, j)

\* C3 (as claimed): when process_extraction(d) is applied a second time right
\* after the first, every note keeps the number of fact bullets it had after
\* the first application.
C3_ReingestKeepsFactCounts ==
    (merges >= 2 /\ lastDelta = prevDelta) =>
        \A f \in Files : FactCount(vault[f]) = FactCount(prevVault[f])

\* C4 (as claimed): when process_extraction(d) returns, a note exists for both
\* endpoints of every relation of d and for the entity of every knowledge
\* entry of d, and a note created only for that reason is a stub of type
\* concept without facts.
C4_NoteForEveryEndpointAndKnowledgeEntity ==
    merges >= 1 =>
        /\ \A n \in EndpointsOf(lastDelta) \cup KnowledgeEntitiesOf(lastDelta) : Exists(vault, n)
        /\ \A n \in Range(stats.created) \ EntityNamesOf(lastDelta) :
              /\ vault[EntityFilePath(n)].type = "concept"
              /\ FactCount(vault[EntityFilePath(n)]) = 0

\* C4 (amended): as C4, for the knowledge entries that name an entity (a
\* knowledge entry whose entity is the empty string is skipped and gets no
\* note).
C4_NoteForEveryEndpointAndNamedKnowledgeEntity ==
    merges >= 1 =>
        /\ \A n \in EndpointsOf(lastDelta) \cup (KnowledgeEntitiesOf(lastDelta) \ {""}) :
              Exists(vault, n)
        /\ \A n \in Range(stats.created) \ EntityNamesOf(lastDelta) :
              /\ vault[EntityFilePath(n)].type = "concept"
              /\ FactCount(vault[EntityFilePath(n)]) = 0

\* C4 witness: a merge whose relation and knowledge entry name entities that
\* are not listed and had no note, and stubs were created for all of them.
C4_Witness ==
    /\ merges >= 1
    /\ \E i \in 1..Len(lastDelta.relations), k \in 1..Len(lastDelta.knowledge) :
          LET r == lastDelta.relations[i]
              e == lastDelta.knowledge[k].entity
          IN  /\ {r.from, r.to, e} \cap EntityNamesOf(lastDelta) = {}
              /\ e # "" /\ r.from # r.to
              /\ \A n \in {r.from, r.to, e} : ~Exists(prevVault, n) /\ Exists(vault, n)
              /\ {r.from, r.to, e} \subseteq Range(stats.created)

\* C5 (as claimed): when the merge of d completes, every participant of every
\* episode of d has a note.
C5_EpisodeParticipantsHaveNotes ==
    merges >= 1 => \A n \in ParticipantsOf(lastDelta) : Exists(vault, n)

\* C10 (as claimed): after any sequence of process_extraction calls no note
\* holds two knowledge entries with the same title.
C10_KnowledgeTitlesUnique ==
    \A f \in NoteFiles(vault) :
        \A i, j \in KnowledgeEntries(vault[f]) :
            i # j => vault[f].body[i].a # vault[f].body[j].a

------------------------------------------------------------------------------
(* Claims on the extraction parser *)

\* the completion is not JSON: the direct parse fails and the outermost {...}
\* substring is missing or fails to parse
NotJson(r) == ~JsonValid(CleanMarkdown(r)) /\ ~(HasBraces(r) /\ JsonValid(OutermostBraces(r)))

\* C9: when the completion is not JSON, _parse_response returns a result whose
\* five lists are empty, and process_extraction of it returns created = [] and
\* updated = [] and leaves every note of the vault unchanged.
C9_NonJsonCompletionIsNoOp ==
    (merges >= 1 /\ NotJson(raw)) =>
        /\ lastDelta = EmptyDelta
        /\ stats = [created |-> <<>>, updated |-> <<>>]
        /\ vault = prevVault

\* C9 witness: a completion that holds braces but is not JSON was handed to a
\* vault that already held notes, and the vault is as it was.
C9_Witness ==
    /\ merges = 2
    /\ NotJson(raw) /\ HasBraces(raw)
    /\ prevVault # EmptyVault
    /\ vault = prevVault

------------------------------------------------------------------------------
(* Claims on concurrent calls *)

SameContent(v1, v2) ==
    \A f \in Files : v1[f].type = v2[f].type /\ v1[f].body = v2[f].body

SerialResult(v, d1, d2) ==
    ProcessExtractionResult(ProcessExtractionResult(v, d1, 2).v, d2, 2).v

\* C1 (as claimed): when two process_extraction calls that ran concurrently on
\* one vault have both returned, the notes of the vault and the content of
\* each are those of the two merges applied one after the other, in one of
\* the two orders.
C1_ConcurrentMergesAreSerializable ==
    (\A w \in Workers : wPc[w] = "done") =>
        \/ SameContent(vault, SerialResult(startVault, wDelta[1], wDelta[2]))
        \/ SameContent(vault, SerialResult(startVault, wDelta[2], wDelta[1]))

------------------------------------------------------------------------------
(* Claims on retrieval *)

\* C6 (as claimed): after every query call, no entity of graph_context has the
\* entity id of a direct match, and no entity id appears twice in
\* graph_context.
C6_GraphContextDisjointFromMatches ==
    /\ \A i \in 1..Len(qContext) : qContext[i] \notin Range(qMatches)
    /\ \A i, j \in 1..Len(qContext) : i # j => qContext[i] # qContext[j]

------------------------------------------------------------------------------
(* Claims on the Memory SDK *)

NamesOf(notes) == {n.name : n \in notes}

\* C7 (as claimed): once delete(N) has removed N for a user, and until N is
\* written again, get(N) reports nothing, neither the cached graph view nor
\* the cached vector index of that user holds N, and no search lists N.
C7_DeletedEntityIsGone ==
    \A u \in UserIds : \A n \in deleted[u] :
        /\ n \notin NamesOf(graphCache[u].notes)
        /\ n \notin NamesOf(vecCache[u].notes)
        /\ (lastOp.user = u /\ lastOp.op \in {"get", "search"}) => n \notin NamesOf(lastOp.read)

\* C8 (as claimed): a call made for user u reads notes of u's own directory
\* only, and leaves the directory of every other user as it was.
C8_NoCallCrossesTenants ==
    lastOp.op # "none" =>
        /\ \A n \in lastOp.read : n.dir = lastOp.user
        /\ \A v \in UserIds \ {lastOp.user} : disk[v] = prevDisk[v]

------------------------------------------------------------------------------
(* Claims on growth of the vault *)

\* the fact bullets, relation bullets and knowledge entries of a body, in order
ContentLines(body) == SelectSeq(body, LAMBDA l : l.kind \in {"fact", "rel", "know"})

\* s is t with zero or more lines left out
RECURSIVE IsSubseq(_, _)
IsSubseq(s, t) ==
    IF s = <<>> THEN TRUE
    ELSE IF t = <<>> THEN FALSE
    ELSE IF Head(s) = Head(t) THEN IsSubseq(Tail(s), Tail(t))
    ELSE IsSubseq(s, Tail(t))

\* C11: across process_extraction calls a note once created is never removed,
\* the number of fact bullets of a note never decreases, and every fact
\* bullet, relation bullet and knowledge entry of a note is still in it,
\* unmodified and in the same order, after the next merge.
C11_VaultOnlyGrows ==
    merges >= 1 =>
        \A f \in Files :
            prevVault[f] # NoNote =>
                /\ vault[f] # NoNote
                /\ FactCount(vault[f]) >= FactCount(prevVault[f])
                /\ IsSubseq(ContentLines(prevVault[f].body), ContentLines(vault[f].body))

\* C11 witness: a second merge put a new fact bullet into a note that held a
\* fact and a relation, ahead of the relation bullet that was its last line.
C11_Witness ==
    /\ merges = 2
    /\ \E f \in Files :
          LET old == prevVault[f].body
              new == vault[f].body
          IN  /\ prevVault[f] # NoNote
              /\ FactCount(prevVault[f]) >= 1
              /\ FactCount(vault[f]) > FactCount(prevVault[f])
              /\ old[Len(old)].kind = "rel"
              /\ new[Len(new)] = old[Len(old)]

------------------------------------------------------------------------------
(* Claims on failing merges *)

\* C12 (as claimed): when a process_extraction call fails, the vault is as it
\* was before the call: no note of the delta was written.
C12_FailedMergeLeavesVaultUnchanged ==
    failed => vault = prevVault

------------------------------------------------------------------------------
(* Claims on retries *)

WaitsUpTo(n, unit) == [i \in 1..n |-> i * unit]

\* number of requests that fail before the first that answers
RECURSIVE LeadingFailures(_, _)
LeadingFailures(upstream, i) ==
    IF i > Len(upstream) \/ upstream[i] = "ok" THEN 0
    ELSE 1 + LeadingFailures(upstream, i + 1)

\* C13 (as claimed): embed_batch makes at most 3 requests, sleeps 1s before
\* the first retry and 2s before the second, returns at the first request
\* that answers, and when the third request fails too it fails with
\* EmbeddingError.
C13_EmbedRetriesThenEmbeddingError ==
    embedOut.result # "none" =>
        LET fails == LeadingFailures(embedIn.upstream, 1)
        IN  /\ embedOut.requests <= 3
            /\ embedOut.waits = WaitsUpTo(embedOut.requests - 1, 1)
            /\ fails < 3 => (embedOut.result = "returned" /\ embedOut.requests = fails + 1)
            /\ fails = 3 => (embedOut.result = "raised" /\ embedOut.error = "EmbeddingError")

\* a chunk of the last ingest_conversation failed on every attempt made
SomeChunkExhausted ==
    \E c \in 1..Len(ingestOut.perChunk) : ~ingestOut.perChunk[c].ok

\* C14 (as claimed): when a chunk has failed all its attempts,
\* ingest_conversation fails with an error and does not record the
\* conversation as ingested.
C14_ExhaustedIngestFails ==
    SomeChunkExhausted => (ingestOut.raised /\ ~ingestOut.ingested)

\* C15 (as claimed): for each chunk the failing call is retried up to 3 times,
\* with sleeps of 10s, 20s and 30s before the retries, and the loop stops at
\* the first attempt that succeeds.
C15_IngestRetriesThreeTimes ==
    \A c \in 1..Len(ingestOut.perChunk) :
        LET fails   == LeadingFailures(ingestIn.upstream[c], 1)
            retries == IF fails < 3 THEN fails ELSE 3
        IN  /\ ingestOut.perChunk[c].requests = retries + 1
            /\ ingestOut.perChunk[c].waits = WaitsUpTo(retries, 10)

------------------------------------------------------------------------------
\* C16: after any sequence of process_extraction calls, every reference [[X]]
\* in a note body - a relation bullet or a link put into fact or knowledge
\* text - has as X the file stem of an existing note, also for names that hold
\* a character file-name sanitization replaces.
C16_LinksNameExistingNotes ==
    \A f \in NoteFiles(vault) : BodyLinks(vault[f].body) \subseteq ExistingNotes(vault)

------------------------------------------------------------------------------
\* the names the merges so far have named as entities or relation endpoints
NamedSoFar ==
    EntityNamesOf(lastDelta) \cup EndpointsOf(lastDelta)
    \cup EntityNamesOf(prevDelta) \cup EndpointsOf(prevDelta)

\* loading a note file and saving it again without a change
LoadAndSave(text) ==
    FormatWithFrontmatter(ParseFrontmatter(text).fm, ParseFrontmatter(text).body)

\* C17: a note written by process_extraction, loaded (header parse plus body)
\* and saved again without changes, has the same content; and after a merge
\* that names N exactly one note holds N: two distinct entity names never share
\* one note file.
C17_RoundTripAndOneNotePerName ==
    /\ \A f \in NoteFiles(vault) : LoadAndSave(FileText(vault[f])) = FileText(vault[f])
    /\ \A n1 \in NamedSoFar, n2 \in NamedSoFar :
          (n1 # n2 /\ vault[EntityFilePath(n1)] # NoNote) => EntityFilePath(n1) # EntityFilePath(n2)

------------------------------------------------------------------------------
\* C18: whatever numeric importance an episode of the response carries (below
\* 0, above 1, or in range), the importance stored on the ExtractedEpisode
\* lies in [0,1] (importance is counted in tenths).
C18_ImportanceClamped ==
    \A i \in 1..Len(parsedOut.episodes) :
        parsedOut.episodes[i].importance >= 0 /\ parsedOut.episodes[i].importance <= 10

------------------------------------------------------------------------------
TypeUnknown(obj, types) == "type" \notin DOMAIN obj \/ obj.type \notin types

\* C19: an entity of the response whose type is missing or not one of the
\* seven entity types becomes an ExtractedEntity of type concept; a relation
\* whose type is missing or unknown becomes an ExtractedRelation of type
\* related_to.
C19_UnknownTypesDefault ==
    /\ \A i \in 1..Len(parsedOut.entities) :
          TypeUnknown(jsonIn.entities[i], EntityTypes) => parsedOut.entities[i].type = "concept"
    /\ \A i \in 1..Len(parsedOut.relations) :
          TypeUnknown(jsonIn.relations[i], RelationTypes)
              => parsedOut.relations[i].type = "related_to"

------------------------------------------------------------------------------
\* C20: every knowledge entry K of a delta that names an entity which is not
\* among the delta's entities is, after process_extraction, present in its
\* entity's note (an entry with K's title is there, newly appended or from
\* before); this holds for each of several such entries naming the same
\* entity, whether its note existed before or is created as a stub by the
\* first of them.
C20_UnlistedKnowledgeAppended ==
    merges >= 1 =>
        \A i \in 1..Len(lastDelta.knowledge) :
            LET K == lastDelta.knowledge[i]
            IN  (K.entity # "" /\ K.entity \notin EntityNamesOf(lastDelta))
                    => K.title \in ExistingTitles(vault[EntityFilePath(K.entity)].body)

------------------------------------------------------------------------------
\* C21: graph expansion is performed for every direct match: each neighbour
\* that get_neighbors returns for a direct match within graph_depth is, after
\* query, among the entities of the direct matches or in graph_context, also
\* when that match's entity was reached before as a neighbour of an earlier
\* match.
C21_EveryMatchIsExpanded ==
    \A i \in 1..Len(qMatches) :
        GetEntity(qGraph, qMatches[i]) =>
            Range(GetNeighbors(qGraph, qMatches[i], qDepth))
                \subseteq (Range(qMatches) \cup Range(qContext))

------------------------------------------------------------------------------
\* C22: neighbours of type tag are skipped by graph expansion: after every
\* query, graph_context holds no entity whose type is tag, and the assembled
\* context prints the "Related entities" header only when it lists at least
\* one neighbour that is not a tag.
C22_TagNeighboursSkipped ==
    /\ \A i \in 1..Len(qContext) : EntityTypeOf(qContext[i]) # "tag"
    /\ qAssembled.relatedHeader => qAssembled.related # <<>>

------------------------------------------------------------------------------
\* the title of the level-2 section line i of a body lies in: that of the
\* nearest "## " line above it, "" when there is none
SectionAt(body, i) ==
    LET above == {j \in 1..(i - 1) : body[j].kind = "sec"}
    IN  IF above = {} THEN ""
        ELSE body[CHOOSE j \in above : \A k \in above : k <= j].a

SectionOfKind(kind) ==
    CASE kind = "fact" -> "Facts" [] kind = "rel" -> "Relations" [] kind = "know" -> "Knowledge"

\* C23: after any sequence of merges every fact bullet lies inside the Facts
\* section, every relation bullet inside the Relations section and every
\* knowledge entry inside the Knowledge section of its note, whatever the
\* order in which the sections were created.
C23_ItemsLieInTheirSection ==
    \A f \in NoteFiles(vault) :
        \A i \in 1..Len(vault[f].body) :
            vault[f].body[i].kind \in {"fact", "rel", "know"}
                => SectionAt(vault[f].body, i) = SectionOfKind(vault[f].body[i].kind)

------------------------------------------------------------------------------
\* the titles of the level-2 sections of a body, in the order they appear
SectionTitles(body) ==
    LET secs == SelectSeq(body, LAMBDA l : l.kind = "sec")
    IN  [i \in 1..Len(secs) |-> secs[i].a]

SectionRank(title) ==
    CASE title = "Facts" -> 1 [] title = "Relations" -> 2 [] title = "Knowledge" -> 3

IsPrefix(s, t) == Len(s) <= Len(t) /\ SubSeq(t, 1, Len(s)) = s

------------------------------------------------------------------------------
\* how many lines of a body are the given line
CountLine(body, line) == Cardinality({i \in 1..Len(body) : body[i] = line})

\* the entities of a delta that it lists once
ListedOnce(d) ==
    {d.entities[i] : i \in {j \in 1..Len(d.entities) :
                               \A k \in 1..Len(d.entities) : k # j => d.entities[k].name # d.entities[j].name}}

\* C25: when process_extraction updates the existing note of entity E, a
\* relation of the delta that touches E is appended under E's Relations
\* section, as a bullet with its direction and type, exactly when its other
\* endpoint is not a wikilink of the body as it was before this merge; facts
\* added by the same merge do not change that.
C25_RelationAppendedUnlessLinkedBefore ==
    merges >= 1 =>
        \A E \in ListedOnce(lastDelta) :
            LET f == EntityFilePath(E.name)
            IN  prevVault[f] # NoNote =>
                    \A i \in 1..Len(lastDelta.relations) :
                        LET r    == lastDelta.relations[i]
                            line == RelLines(<<r>>, E.name)[1]
                        IN  (r.from = E.name \/ r.to = E.name) =>
                                /\ HasSection(vault[f].body, "Relations")
                                       \/ RelOther(r, E.name) \in BodyLinks(prevVault[f].body)
                                /\ (CountLine(vault[f].body, line) > CountLine(prevVault[f].body, line))
                                       <=> (RelOther(r, E.name) \notin BodyLinks(prevVault[f].body))

------------------------------------------------------------------------------
\* C26: across any sequence of add_message, add_messages, flush and clear
\* calls, add_messages sends the pending messages to client.add exactly when
\* auto_extract is on and at least extract_every messages have been added and
\* not yet extracted, so the message counter always equals the number of
\* pending messages.
C26_ExtractEveryNPending ==
    /\ history.msgCount = history.pending
    /\ history.op = "add_messages" =>
          ((history.sent > 0) <=> (history.auto /\ history.unextracted >= history.every))

------------------------------------------------------------------------------
\* the messages of a sequence are numbered upwards
Increasing(ids) == \A i, j \in 1..Len(ids) : i < j => ids[i] < ids[j]

\* C27: after any sequence of save_context and clear calls the buffer holds
\* fewer than 4 messages; every saved message is either still buffered or was
\* passed to client.add, once, and the messages were passed in the order they
\* were saved; after clear() the buffer is empty and the messages it held have
\* been passed to client.add.
C27_BufferFlushedInOrder ==
    /\ Len(lcMemory.buffer) < FlushAt
    /\ Increasing(lcMemory.passed \o lcMemory.buffer)
    /\ Range(lcMemory.passed \o lcMemory.buffer) = 1..lcMemory.saved
    /\ lcMemory.op = "clear" => lcMemory.buffer = <<>>

\* C27 witness: the buffer was sent on reaching 4 messages, and a later
\* clear() sent the one message saved after that.
C27_Witness ==
    /\ lcMemory.op = "clear"
    /\ Len(lcMemory.passed) = FlushAt + 1
    /\ lcMemory.saved = FlushAt + 1

------------------------------------------------------------------------------
\* C30: when chat returns, conversation_history has grown by exactly the user
\* message followed by the assistant response, also when the automatic
\* remember step raised; when chat fails (the LLM call raised),
\* conversation_history is as it was before the call.
C30_ChatKeepsHistoryConsistent ==
    autoMem.op = "chat" =>
        /\ autoMem.result = "returned" =>
              autoMem.history = autoMem.before
                  \o <<UserMessage(autoMem.turns), AssistantMessage(autoMem.turns)>>
        /\ autoMem.result = "raised" => autoMem.history = autoMem.before

------------------------------------------------------------------------------
\* C28: _parse_response is total: for every response, including valid JSON
\* whose top level is not an object, whose entities, relations or episodes
\* items are not objects, or whose importance is not a number, it returns an
\* ExtractionResult and never raises.
C28_ParseResponseNeverRaises == parseRaised = "none"

------------------------------------------------------------------------------
\* C29: the lists process_extraction returns describe the change of the vault
\* exactly: a name is in created only if no note for it existed before the
\* call and one exists after, a name is in updated only if its note existed
\* before the call, no name is in both lists and none is twice in one list,
\* also when the delta names the same entity more than once.
C29_StatsDescribeTheChange ==
    (merges >= 1 /\ ~failed) =>
        /\ \A n \in Range(stats.created) :
              prevVault[EntityFilePath(n)] = NoNote /\ vault[EntityFilePath(n)] # NoNote
        /\ \A n \in Range(stats.updated) : prevVault[EntityFilePath(n)] # NoNote
        /\ Range(stats.created) \cap Range(stats.updated) = {}
        /\ \A i, j \in 1..Len(stats.created) : i # j => stats.created[i] # stats.created[j]
        /\ \A i, j \in 1..Len(stats.updated) : i # j => stats.updated[i] # stats.updated[j]

====
